---- MODULE Spec2Model ----
(***************************************************************************)
(* Model of backend/app/routers/statistics.py: the per-dataset statistics  *)
(* routes (fips-value, paginated rows, CSV export) and the metadata tree.  *)
(*                                                                         *)
(* Python strings are sequences of one-character strings; Python None is   *)
(* the one-element sequence None, which no string over Chars equals.       *)
(* Optional numbers (SQL min/max) are sets of at most one integer.         *)
(***************************************************************************)
EXTENDS Integers, Sequences, FiniteSets, TLC

\* longest filter string a request carries
MaxLen == 4

\* characters of the filter strings: the two delimiters, a whitespace
\* character, and two blocks of other characters, each written as one symbol
Chars == {"Sex", "Female", ":", ";", " "}

None == <<"None">>

Strings == UNION {[1..n -> Chars] : n \in 0..MaxLen}

Falsy(x) == x = None \/ x = << >>

\* a or b without the fallback
Or_nofallback(a, b) == a

\* Python's  a or b
Or(a, b) == IF Falsy(a) THEN b ELSE a

(***************************************************************************)
(* Query(regex="^([^:]+:[^:;]+;)*([^:]+:[^:;]+)$")                         *)
(***************************************************************************)
\* s[i..j] matches  [^:]+:[^:;]+
EntryMatch(s, i, j) ==
    \E k \in (i+1)..(j-1) :
        /\ s[k] = ":"
        /\ \A n \in i..(k-1) : s[n] # ":"
        /\ \A n \in (k+1)..j : s[n] \notin {":", ";"}

RECURSIVE MatchFrom(_, _)
\* s[i..Len(s)] matches  ([^:]+:[^:;]+;)*([^:]+:[^:;]+)$
MatchFrom(s, i) ==
    \E j \in i..Len(s) :
        /\ EntryMatch(s, i, j)
        /\ \/ j = Len(s)
           \/ /\ j + 1 < Len(s)
              /\ s[j+1] = ";"
              /\ MatchFrom(s, j + 2)

RegexMatch(s) == MatchFrom(s, 1)

(***************************************************************************)
(* parse_filter_str                                                        *)
(***************************************************************************)
\* positions of the delimiter d in s, in increasing order
RECURSIVE Positions(_, _, _)
Positions(s, d, i) ==
    IF i > Len(s) THEN << >>
    ELSE IF s[i] = d THEN <<i>> \o Positions(s, d, i + 1)
    ELSE Positions(s, d, i + 1)

\* str.split(d, maxsplit): at most maxsplit cuts, leftmost first
Split(s, d, maxsplit) ==
    LET all  == Positions(s, d, 1)
        cuts == IF Len(all) > maxsplit THEN SubSeq(all, 1, maxsplit) ELSE all
        n    == Len(cuts)
        from(p) == IF p = 1 THEN 1 ELSE cuts[p-1] + 1
        to(p)   == IF p = n + 1 THEN Len(s) ELSE cuts[p] - 1
    IN  [p \in 1..(n+1) |-> SubSeq(s, from(p), to(p))]

RECURSIVE LStrip(_)
LStrip(s) == IF s # << >> /\ Head(s) = " " THEN LStrip(Tail(s)) ELSE s

RECURSIVE RStrip(_)
RStrip(s) ==
    IF s # << >> /\ s[Len(s)] = " " THEN RStrip(SubSeq(s, 1, Len(s) - 1)) ELSE s

\* str.strip()
Strip(s) == RStrip(LStrip(s))

\* the tuples handed to dict(): one per ";"-segment
FilterTuples(filters) ==
    LET segs == Split(filters, ";", Len(filters))
    IN  [p \in 1..Len(segs) |->
            LET parts == Split(segs[p], ":", 2)
            IN  [q \in 1..Len(parts) |-> Strip(parts[q])]]

\* dict() raises ValueError unless every tuple has exactly two elements
ParseRaises(filters) ==
    \E p \in 1..Len(FilterTuples(filters)) : Len(FilterTuples(filters)[p]) # 2

\* dict(): a later pair overwrites an earlier one with the same key
parse_filter_str(filters) ==
    LET tuples == FilterTuples(filters)
        keys   == {tuples[p][1] : p \in 1..Len(tuples)}
        last(k) == CHOOSE p \in 1..Len(tuples) :
                      /\ tuples[p][1] = k
                      /\ \A q \in 1..Len(tuples) : tuples[q][1] = k => q <= p
    IN  [k \in keys |-> tuples[last(k)][2]]

(***************************************************************************)
(* The registry imported from models and settings (lines 22-29): one       *)
(* dataset of every shape the routes distinguish.                          *)
(***************************************************************************)
STATS_MODELS ==
    {"sociodemographics", "housing", "screening", "cancerincidence", "cancermortality"}

CANCER_MODELS == {"cancerincidence", "cancermortality"}

\* slug_modelname_sans_type(model, type)
simple_model_name(m) == <<m>>

\* model.Config.label
ConfigLabel(m) ==
    CASE m = "sociodemographics" -> <<"Sociodemographics">>
      [] m = "housing"           -> None
      [] m = "screening"         -> << >>
      [] m = "cancerincidence"   -> <<"Cancer Incidence">>
      [] OTHER                   -> None

\* one factor description: label, optional default, labels of its values
SexDesc ==
    [name |-> <<"Sex">>, label |-> <<"Sex at birth">>, default |-> <<"Total">>,
     values |-> (<<"Total">> :> <<"All sexes">>) @@ (<<"Female">> :> << >>)]

REDesc ==
    [name |-> <<"RE">>, label |-> << >>, default |-> None,
     values |-> (<<"White">> :> <<"White NH">>)]

\* FACTOR_DESCRIPTIONS: an ordered mapping factor -> description per dataset;
\* "sociodemographics" and "cancermortality" have no entry, "housing" an
\* empty one
FACTOR_DESCRIPTIONS ==
    ("housing" :> << >>) @@ ("screening" :> <<SexDesc>>)
        @@ ("cancerincidence" :> <<REDesc, SexDesc>>)

\* MEASURE_DESCRIPTIONS: measure -> label per dataset; measure "k" has no
\* label, measure "n" an empty one; "housing" has no entry
MeasureLabels == (<<"m">> :> <<"Measure M">>) @@ (<<"n">> :> << >>)

MEASURE_DESCRIPTIONS == [m \in STATS_MODELS \ {"housing"} |-> MeasureLabels]

\* FACTOR_DESCRIPTIONS.get(simple_model_name, None)
FactorsGetOrNone(m) ==
    IF m \in DOMAIN FACTOR_DESCRIPTIONS
    THEN [isNone |-> FALSE, items |-> FACTOR_DESCRIPTIONS[m]]
    ELSE [isNone |-> TRUE, items |-> << >>]

\* truthiness of the factor mapping: neither None nor empty
Truthy(fl) == ~fl.isNone /\ fl.items # << >>

\* MEASURE_DESCRIPTIONS.get(simple_model_name, {})
MeasureDescs(m) ==
    IF m \in DOMAIN MEASURE_DESCRIPTIONS THEN MEASURE_DESCRIPTIONS[m] ELSE << >>

\* the attribute of the table class that a factor name selects
Attr(f) == f[1]

\* names of the declared factors, in declaration order
FactorNames(m) ==
    LET fl == FactorsGetOrNone(m).items IN [i \in 1..Len(fl) |-> fl[i].name]

\* columns of the table class of a dataset
Columns(m) ==
    IF m \in CANCER_MODELS
    THEN {"FIPS", "County", "State", "Site", "AAR", "AAC", "RE", "Sex"}
    ELSE {"FIPS", "County", "State", "measure", "value"}
            \cup {Attr(FactorNames(m)[i]) : i \in 1..Len(FactorNames(m))}

(***************************************************************************)
(* Storage: the rows a table may hold                                      *)
(***************************************************************************)
Observations ==
    { [FIPS |-> <<"08001">>, County |-> <<"Adams">>,   State |-> <<"CO">>,
       id |-> <<"m">>, v |-> 5, c |-> 50, RE |-> <<"White">>, Sex |-> <<"Total">>],
      [FIPS |-> <<"08003">>, County |-> <<"Alamosa">>, State |-> <<"CO">>,
       id |-> <<"m">>, v |-> 7, c |-> 70, RE |-> <<"White">>, Sex |-> <<"Female">>],
      [FIPS |-> <<"56001">>, County |-> <<"Albany">>,  State |-> <<"WY">>,
       id |-> <<"m">>, v |-> 9, c |-> 90, RE |-> None, Sex |-> <<"Total">>],
      [FIPS |-> <<"08005">>, County |-> <<"Arapahoe">>, State |-> <<"CO">>,
       id |-> <<"n">>, v |-> 1, c |-> 10, RE |-> <<"Black">>, Sex |-> <<"Total">>],
      [FIPS |-> <<"08007">>, County |-> <<"Archuleta">>, State |-> <<"CO">>,
       id |-> <<"k">>, v |-> 3, c |-> 30, RE |-> <<"White">>, Sex |-> <<"Total">>] }

\* an observation as a row of the dataset's table class
RowOf(m, o) ==
    LET common == [FIPS |-> o.FIPS, County |-> o.County, State |-> o.State]
    IN  IF m \in CANCER_MODELS
        THEN common @@ [Site |-> o.id, AAR |-> o.v, AAC |-> o.c,
                        RE |-> o.RE, Sex |-> o.Sex]
        ELSE LET base == common @@ [measure |-> o.id, value |-> o.v]
             IN  IF "Sex" \in Columns(m) THEN base @@ [Sex |-> o.Sex] ELSE base

Rows(m) == {RowOf(m, o) : o \in Observations}

(***************************************************************************)
(* Queries: select(...).where(...) chains and their execution              *)
(***************************************************************************)
Col(name, col) == [name |-> name, col |-> col]

Select(cols) == [select |-> cols, where |-> << >>]

Where(q, col, val) ==
    [select |-> q.select, where |-> Append(q.where, [col |-> col, val |-> val])]

Matches(q, r) == \A i \in 1..Len(q.where) : r[q.where[i].col] = q.where[i].val

\* session.execute(query).all(): the selected columns of the matching rows
Execute(q, tbl) ==
    LET names == {q.select[i].name : i \in 1..Len(q.select)}
        colOf(n) == q.select[CHOOSE i \in 1..Len(q.select) : q.select[i].name = n].col
    IN  {[n \in names |-> r[colOf(n)]] : r \in {x \in tbl : Matches(q, x)}}

SetMin(S) == IF S = {} THEN {} ELSE {CHOOSE x \in S : \A y \in S : x <= y}

SetMax(S) == IF S = {} THEN {} ELSE {CHOOSE x \in S : \A y \in S : x >= y}

\* select(func.min(col), func.max(col)).where(...): one row, NULLs when no
\* row matches
ExecuteMinMax(q, tbl) ==
    LET vals == {r[q.select[1].col] : r \in {x \in tbl : Matches(q, x)}}
    IN  [min |-> SetMin(vals), max |-> SetMax(vals)]

NoQuery == Select(<< >>)

NoStats == [min |-> {}, max |-> {}]

NoResponse == [status |-> 0, error |-> "", body |-> {}]

(***************************************************************************)
(* State                                                                   *)
(***************************************************************************)
VARIABLES
    model,            \* the dataset the generated routes are closed over
    LIMIT_TO_STATE,   \* settings.LIMIT_TO_STATE
    table,            \* rows of the dataset's table in storage
    op,               \* the route handling the current request, or "idle"
    pc,               \* position of the handler
    measure,          \* query parameter
    filters,          \* query parameter
    filter_factors,   \* the parsed filter
    query,            \* local of the handler
    stats,            \* result of the min/max query
    objects,          \* result of the row query
    nexec,            \* storage calls issued by the current request
    response

vars == <<model, LIMIT_TO_STATE, table, op, pc, measure, filters,
          filter_factors, query, stats, objects, nexec, response>>

config == <<model, LIMIT_TO_STATE>>

locals == <<filter_factors, query, stats, objects>>

MeasureInputs == {<<"m">>, <<"z">>}

InitialObservations == {o \in Observations : o.FIPS \in {<<"08001">>, <<"08005">>, <<"08007">>}}

Init ==
    /\ model \in STATS_MODELS
    /\ LIMIT_TO_STATE \in {None, <<"CO">>}
    /\ table = {RowOf(model, o) : o \in InitialObservations}
    /\ op = "idle"
    /\ pc = "idle"
    /\ measure = None
    /\ filters = None
    /\ filter_factors = << >>
    /\ query = NoQuery
    /\ stats = NoStats
    /\ objects = {}
    /\ nexec = 0
    /\ response = NoResponse

\* a request ends with an error response
Raise(status, error) ==
    /\ response' = [status |-> status, error |-> error, body |-> {}]
    /\ pc' = "done"

\* another client of the storage commits a row
Write ==
    /\ \E r \in Rows(model) \ table : table' = table \cup {r}
    /\ UNCHANGED <<config, op, pc, measure, filters, locals, nexec, response>>

\* the response has been sent; the handler's locals are gone
Finish ==
    /\ pc = "done"
    /\ op' = "idle"
    /\ pc' = "idle"
    /\ measure' = None
    /\ filters' = None
    /\ filter_factors' = << >>
    /\ query' = NoQuery
    /\ stats' = NoStats
    /\ objects' = {}
    /\ nexec' = 0
    /\ response' = NoResponse
    /\ UNCHANGED <<config, table>>

(***************************************************************************)
(* get_dataset_fips                                                        *)
(***************************************************************************)
FipsRequest ==
    /\ op = "idle"
    /\ op' = "fips"
    /\ pc' = "validate"
    /\ measure' \in MeasureInputs
    /\ filters' \in Strings \cup {None}
    /\ UNCHANGED <<config, table, locals, nexec, response>>

\* lines 245-247: the framework checks the parameter against the regex
\* before it calls the handler
FipsValidate ==
    /\ op = "fips" /\ pc = "validate"
    /\ IF filters # None /\ ~RegexMatch(filters)
       THEN Raise(422, "RequestValidationError")
       ELSE pc' = "parse" /\ UNCHANGED response
    /\ UNCHANGED <<config, table, op, measure, filters, locals, nexec>>

\* lines 252-255
FipsBaseQuery(m, ms) ==
    IF m \notin CANCER_MODELS
    THEN Where(Select(<<Col("FIPS", "FIPS"), Col("value", "value")>>), "measure", ms)
    ELSE Where(Select(<<Col("FIPS", "FIPS"), Col("value", "AAR"), Col("aac", "AAC")>>),
               "Site", ms)

\* lines 287-290
StatsQuery(m, ms) ==
    IF m \notin CANCER_MODELS
    THEN Where(Select(<<Col("value", "value")>>), "measure", ms)
    ELSE Where(Select(<<Col("value", "AAR")>>), "Site", ms)

\* the min/max query issued before the filter is parsed
FipsParse_late ==
    /\ op = "fips" /\ pc = "parse"
    /\ query' = FipsBaseQuery(model, measure)
    /\ stats' = ExecuteMinMax(StatsQuery(model, measure), table)
    /\ nexec' = nexec + 1
    /\ IF filters # None /\ ParseRaises(filters)
       THEN Raise(500, "ValueError") /\ UNCHANGED filter_factors
       ELSE /\ filter_factors' = IF filters # None THEN parse_filter_str(filters) ELSE << >>
            /\ pc' = "factors"
            /\ UNCHANGED response
    /\ UNCHANGED <<config, table, op, measure, filters, objects>>

\* lines 252-263
FipsParse ==
    /\ op = "fips" /\ pc = "parse"
    /\ query' = FipsBaseQuery(model, measure)
    /\ IF filters # None /\ ParseRaises(filters)
       THEN Raise(500, "ValueError") /\ UNCHANGED filter_factors
       ELSE /\ filter_factors' = IF filters # None THEN parse_filter_str(filters) ELSE << >>
            /\ pc' = "factors"
            /\ UNCHANGED response
    /\ UNCHANGED <<config, table, op, measure, filters, stats, objects, nexec>>

\* the default taken even when the filter names the factor
FactorValue_default(ff, fv) == fv.default

\* line 272: filter_factors.get(f, fv.get("default", None))
FactorValue(ff, fv) == IF fv.name \in DOMAIN ff THEN ff[fv.name] ELSE fv.default

\* lines 266-274: one where() per declared factor
RECURSIVE ApplyFactors(_, _, _)
ApplyFactors(q, items, ff) ==
    IF items = << >> THEN q
    ELSE ApplyFactors(Where(q, Attr(Head(items).name), FactorValue(ff, Head(items))),
                      Tail(items), ff)

\* lines 282-283
ApplyLimit(q, limit) == IF limit # None THEN Where(q, "State", limit) ELSE q

\* unused filter entries ignored instead of rejected
FipsFactors_ignore ==
    /\ op = "fips" /\ pc = "factors"
    /\ LET factor_labels == FactorsGetOrNone(model)
       IN  query' = ApplyLimit(ApplyFactors(query, factor_labels.items, filter_factors),
                               LIMIT_TO_STATE)
    /\ pc' = "range"
    /\ UNCHANGED <<config, table, op, measure, filters, filter_factors, stats, objects,
                   nexec, response>>

\* lines 265-283
FipsFactors ==
    /\ op = "fips" /\ pc = "factors"
    /\ LET factor_labels == FactorsGetOrNone(model)
       IN  IF Truthy(factor_labels)
           THEN /\ query' = ApplyLimit(ApplyFactors(query, factor_labels.items, filter_factors),
                                       LIMIT_TO_STATE)
                /\ pc' = "range"
                /\ UNCHANGED response
           ELSE IF filters # None
           THEN Raise(400, "HTTPException") /\ UNCHANGED query
           ELSE /\ query' = ApplyLimit(query, LIMIT_TO_STATE)
                /\ pc' = "range"
                /\ UNCHANGED response
    /\ UNCHANGED <<config, table, op, measure, filters, filter_factors, stats, objects, nexec>>

\* lines 287-293
FipsRange ==
    /\ op = "fips" /\ pc = "range"
    /\ stats' = ExecuteMinMax(StatsQuery(model, measure), table)
    /\ nexec' = nexec + 1
    /\ pc' = "values"
    /\ UNCHANGED <<config, table, op, measure, filters, filter_factors, query, objects, response>>

\* lines 295-296
FipsValues ==
    /\ op = "fips" /\ pc = "values"
    /\ objects' = Execute(query, table)
    /\ nexec' = nexec + 1
    /\ pc' = "respond"
    /\ UNCHANGED <<config, table, op, measure, filters, filter_factors, query, stats, response>>

\* lines 300-303: FIPS -> value (and aac)
FipsValuesOf(objs) ==
    [f \in {x.FIPS : x \in objs} |-> LET x == CHOOSE y \in objs : y.FIPS = f
                                     IN  [n \in DOMAIN x \ {"FIPS"} |-> x[n]]]

\* lines 300-309
FipsRespond ==
    /\ op = "fips" /\ pc = "respond"
    /\ response' = [status |-> 200, error |-> "",
                    body |-> [min |-> stats.min, max |-> stats.max,
                              values |-> FipsValuesOf(objects)]]
    /\ pc' = "done"
    /\ UNCHANGED <<config, table, op, measure, filters, locals, nexec>>

(***************************************************************************)
(* get_dataset                                                             *)
(***************************************************************************)
RECURSIVE SeqOf(_)
SeqOf(S) == IF S = {} THEN << >> ELSE LET x == CHOOSE y \in S : TRUE
                                      IN  <<x>> \o SeqOf(S \ {x})

\* select(model): every column of the table class, under its own name
SelectModel(m) ==
    LET cols == SeqOf(Columns(m)) IN Select([i \in 1..Len(cols) |-> Col(cols[i], cols[i])])

RowsRequest ==
    /\ op = "idle"
    /\ op' = "rows"
    /\ pc' = "compose"
    /\ measure' \in MeasureInputs \cup {None}
    /\ UNCHANGED <<config, table, filters, locals, nexec, response>>

\* lines 213-219; model.measure raises AttributeError on a table class
\* without that column
RowsCompose ==
    /\ op = "rows" /\ pc = "compose"
    /\ LET limited == ApplyLimit(SelectModel(model), LIMIT_TO_STATE)
       IN  IF measure = None
           THEN query' = limited /\ pc' = "paginate" /\ UNCHANGED response
           ELSE IF "measure" \notin Columns(model)
           THEN Raise(500, "AttributeError") /\ UNCHANGED query
           ELSE /\ query' = Where(limited, "measure", measure)
                /\ pc' = "paginate"
                /\ UNCHANGED response
    /\ UNCHANGED <<config, table, op, measure, filters, filter_factors, stats, objects, nexec>>

\* lines 221-223
RowsPaginate ==
    /\ op = "rows" /\ pc = "paginate"
    /\ objects' = Execute(query, table)
    /\ nexec' = nexec + 1
    /\ response' = [status |-> 200, error |-> "", body |-> Execute(query, table)]
    /\ pc' = "done"
    /\ UNCHANGED <<config, table, op, measure, filters, filter_factors, query, stats>>

(***************************************************************************)
(* download_dataset                                                        *)
(***************************************************************************)
\* dict.get(key, default)
Get(d, k, default) == IF k \in DOMAIN d THEN d[k] ELSE default

\* lines 328-329
label_for_measure(m, ms) == Or(Get(MeasureDescs(m), ms, ms), ms)

\* lines 345-362
CsvQuery(m, ms, limit) ==
    LET sel == IF m \notin CANCER_MODELS
               THEN Select(<<Col("GEOID", "FIPS"), Col("County", "County"),
                             Col("State", "State"), Col("measure", "measure"),
                             Col("value", "value")>>)
               ELSE Select(<<Col("GEOID", "FIPS"), Col("County", "County"),
                             Col("State", "State"), Col("measure", "Site"),
                             Col("value", "AAR"), Col("RE", "RE"), Col("Sex", "Sex")>>)
        mcol == IF m \notin CANCER_MODELS THEN "measure" ELSE "Site"
    IN  ApplyLimit(IF ms # None THEN Where(sel, mcol, ms) ELSE sel, limit)

\* lines 370-373
HeaderCols(fl) ==
    <<"GEOID", "County", "State", "measure", "value">>
        \o (IF ~fl.isNone THEN [i \in 1..Len(fl.items) |-> Attr(fl.items[i].name)]
            ELSE << >>)

\* lines 340-341: x[f] raises when the row has no such key
FieldsRaise(x, fl) ==
    ~fl.isNone /\ \E i \in 1..Len(fl.items) : Attr(fl.items[i].name) \notin DOMAIN x

\* lines 331-343
model_to_fields(m, x, fl) ==
    <<x["GEOID"], x["County"], x["State"], label_for_measure(m, x["measure"]), x["value"]>>
        \o (IF ~fl.isNone THEN [i \in 1..Len(fl.items) |-> x[Attr(fl.items[i].name)]]
            ELSE << >>)

CsvRequest ==
    /\ op = "idle"
    /\ op' = "csv"
    /\ pc' = "query"
    /\ measure' \in MeasureInputs \cup {None}
    /\ UNCHANGED <<config, table, filters, locals, nexec, response>>

\* lines 345-365
CsvExecute ==
    /\ op = "csv" /\ pc = "query"
    /\ query' = CsvQuery(model, measure, LIMIT_TO_STATE)
    /\ objects' = Execute(CsvQuery(model, measure, LIMIT_TO_STATE), table)
    /\ nexec' = nexec + 1
    /\ pc' = "render"
    /\ UNCHANGED <<config, table, op, measure, filters, filter_factors, stats, response>>

\* lines 367-387
CsvRender ==
    /\ op = "csv" /\ pc = "render"
    /\ LET factor_labels == FactorsGetOrNone(model)
       IN  IF \E x \in objects : FieldsRaise(x, factor_labels)
           THEN Raise(500, "KeyError")
           ELSE /\ response' =
                       [status |-> 200, error |-> "",
                        body |-> [header |-> HeaderCols(factor_labels),
                                  rows |-> {model_to_fields(model, x, factor_labels) :
                                                x \in objects}]]
                /\ pc' = "done"
    /\ UNCHANGED <<config, table, op, measure, filters, locals, nexec>>

(***************************************************************************)
(* get_measures: the entry of one dataset in the metadata tree             *)
(***************************************************************************)
\* lines 96-99, the commented-out limit of lines 110-111 not applied
DistinctMeasures(m, tbl) ==
    {r[IF m \in CANCER_MODELS THEN "Site" ELSE "measure"] : r \in tbl}

\* line 104
DistinctValues(f, tbl) == {r[Attr(f)] : r \in tbl}

\* lines 128-136
FactorMeta(fv, tbl) ==
    [label   |-> Or(fv.label, fv.name),
     default |-> fv.default,
     values  |-> [x \in DistinctValues(fv.name, tbl) |-> Or(Get(fv.values, x, x), x)]]

\* lines 119-138
CategoryMeta(m, tbl) ==
    LET fl == FactorsGetOrNone(m).items
    IN  [label    |-> Or(ConfigLabel(m), simple_model_name(m)),
         measures |-> [x \in DistinctMeasures(m, tbl) |->
                          [label |-> Or(Get(MeasureDescs(m), x, x), x)]],
         factors  |-> [f \in {fl[i].name : i \in 1..Len(fl)} |->
                          FactorMeta(fl[CHOOSE i \in 1..Len(fl) : fl[i].name = f], tbl)]]

\* lines 58-61 and 72: the response model takes strings only as the keys and
\* labels of a factor's values
ResponseInvalid(meta) ==
    \E f \in DOMAIN meta.factors : None \in DOMAIN meta.factors[f].values

MeasuresRequest ==
    /\ op = "idle"
    /\ op' = "measures"
    /\ pc' = "build"
    /\ UNCHANGED <<config, table, measure, filters, locals, nexec, response>>

\* lines 90-140
MeasuresBuild ==
    /\ op = "measures" /\ pc = "build"
    /\ nexec' = nexec + 1 + Len(FactorsGetOrNone(model).items)
    /\ IF ResponseInvalid(CategoryMeta(model, table))
       THEN Raise(500, "ResponseValidationError")
       ELSE /\ response' = [status |-> 200, error |-> "", body |-> CategoryMeta(model, table)]
            /\ pc' = "done"
    /\ UNCHANGED <<config, table, op, measure, filters, locals>>

Next ==
    \/ Write
    \/ Finish
    \/ FipsRequest
    \/ FipsValidate
    \/ FipsParse
    \/ FipsFactors
    \/ FipsRange
    \/ FipsValues
    \/ FipsRespond
    \/ RowsRequest
    \/ RowsCompose
    \/ RowsPaginate
    \/ CsvRequest
    \/ CsvExecute
    \/ CsvRender
    \/ MeasuresRequest
    \/ MeasuresBuild

Spec == Init /\ [][Next]_vars

(***************************************************************************)
(* Properties                                                              *)
(***************************************************************************)
\* the filter of the current fips-value request has been parsed into a
\* predicate
PredicateProduced ==
    /\ op = "fips"
    /\ \/ pc \in {"factors", "range", "values", "respond"}
       \/ pc = "done" /\ response.error \notin {"RequestValidationError", "ValueError"}

DeclaresFactors == Truthy(FactorsGetOrNone(model))

DeclaredNames == {FactorNames(model)[i] : i \in 1..Len(FactorNames(model))}

\* C1: on a dataset that declares factors, a finished fips-value request
\* whose predicate names an undeclared factor has failed with a client
\* error; it has not succeeded.
C1_UnknownFactorRejected ==
    (/\ op = "fips" /\ pc = "done"
     /\ DeclaresFactors
     /\ PredicateProduced
     /\ \E k \in DOMAIN filter_factors : k \notin DeclaredNames)
        => response.status = 400

\* C2: on a dataset without declared factors, a fips-value request with a
\* non-empty predicate ends with the 400 error right after the factor step,
\* and a request without a filter string has an empty predicate, never
\* ends in an error and finishes with status 200.
C2_NoFactorsRejectsPredicate ==
    (op = "fips" /\ ~DeclaresFactors) =>
        /\ (PredicateProduced /\ DOMAIN filter_factors # {} /\ pc # "factors")
              => (pc = "done" /\ response.status = 400
                    /\ response.error = "HTTPException")
        /\ filters = None
              => /\ DOMAIN filter_factors = {}
                 /\ pc = "done" => response.status = 200

C2_Witness ==
    /\ op = "fips" /\ pc = "done" /\ ~DeclaresFactors
    /\ DOMAIN filter_factors # {}
    /\ response.status = 400

\* C3: a fips-value request that ended in an error has issued no storage
\* call and holds no query result.
C3_NoStorageBeforeError ==
    (op = "fips" /\ pc = "done" /\ response.status # 200)
        => (nexec = 0 /\ stats = NoStats /\ objects = {})

C3_Witness ==
    /\ op = "fips" /\ pc = "done"
    /\ response.error \in {"ValueError", "HTTPException"}
    /\ nexec = 0

\* the conditions of the query on one column
CondsOn(q, col) == {i \in 1..Len(q.where) : q.where[i].col = col}

\* C4: once the factors are applied, the query has exactly one condition
\* per declared factor, comparing the factor's column with the predicate's
\* value, else the declared default, else NULL.
C4_FactorConditions ==
    (op = "fips" /\ DeclaresFactors /\ pc \in {"range", "values", "respond"}) =>
        \A i \in 1..Len(FactorsGetOrNone(model).items) :
            LET fv == FactorsGetOrNone(model).items[i]
                expected == IF fv.name \in DOMAIN filter_factors
                            THEN filter_factors[fv.name]
                            ELSE IF fv.default # None THEN fv.default ELSE None
            IN  /\ Cardinality(CondsOn(query, Attr(fv.name))) = 1
                /\ \A c \in CondsOn(query, Attr(fv.name)) : query.where[c].val = expected

C4_Witness ==
    /\ op = "fips" /\ pc = "range" /\ model = "cancerincidence"
    /\ <<"Sex">> \in DOMAIN filter_factors
    /\ \E c \in CondsOn(query, "Sex") : query.where[c].val = <<"Female">>
    /\ \E c \in CondsOn(query, "RE") : query.where[c].val = None

\* the rows of the measure inside the region limit
MeasurePopulation(tbl) ==
    {r \in tbl : /\ r[IF model \in CANCER_MODELS THEN "Site" ELSE "measure"] = measure
                 /\ LIMIT_TO_STATE # None => r["State"] = LIMIT_TO_STATE}

PopulationValues(tbl) ==
    {r[IF model \in CANCER_MODELS THEN "AAR" ELSE "value"] : r \in MeasurePopulation(tbl)}

\* C5: the min/max query of a fips-value request returns the minimum and
\* maximum over the rows of the measure that satisfy the region limit.
C5_RangeOverLimitedPopulation ==
    [][(op = "fips" /\ pc = "range" /\ pc' = "values")
          => stats' = [min |-> SetMin(PopulationValues(table)),
                       max |-> SetMax(PopulationValues(table))]]_vars

\* the filter grammar  entry (";" entry)*,  entry := name ":" value, the
\* name non-empty after trimming
GrammarEntry(seg) ==
    /\ Len(Positions(seg, ":", 1)) = 1
    /\ Strip(SubSeq(seg, 1, Positions(seg, ":", 1)[1] - 1)) # << >>

Grammar(s) ==
    LET segs == Split(s, ";", Len(s)) IN \A p \in 1..Len(segs) : GrammarEntry(segs[p])

CleanName(k) ==
    /\ k # << >>
    /\ \A i \in 1..Len(k) : k[i] \notin {":", ";"}
    /\ k = Strip(k)

\* C6: a filter string outside the grammar yields no predicate and a client
\* error, and every predicate has only non-empty, delimiter-free, trimmed
\* names.
C6_MalformedFilterRejected ==
    (op = "fips" /\ filters # None) =>
        /\ ~Grammar(filters) =>
              /\ pc \notin {"factors", "range", "values", "respond"}
              /\ pc = "done" => response.status \in {400, 422}
        /\ PredicateProduced => \A k \in DOMAIN filter_factors : CleanName(k)

\* the conditions the row listing is to carry
ListConditions ==
    (IF measure # None
     THEN {[col |-> IF model \in CANCER_MODELS THEN "Site" ELSE "measure", val |-> measure]}
     ELSE {})
    \cup (IF LIMIT_TO_STATE # None THEN {[col |-> "State", val |-> LIMIT_TO_STATE]} ELSE {})

\* C7: a finished list-rows request has succeeded with a query whose
\* conditions are the measure condition on the dataset's measure column
\* (when a measure is given) and the region limit (when configured).
C7_ListRowsConditions ==
    (op = "rows" /\ pc = "done") =>
        /\ response.status = 200
        /\ {query.where[i] : i \in 1..Len(query.where)} = ListConditions

\* C8: a finished CSV export has succeeded, its header has the five fixed
\* columns followed by the declared factor names, and every row is as long
\* as the header.
C8_CsvShape ==
    (op = "csv" /\ pc = "done") =>
        /\ response.status = 200
        /\ response.body.header =
              <<"GEOID", "County", "State", "measure", "value">>
                 \o [i \in 1..Len(FactorNames(model)) |-> Attr(FactorNames(model)[i])]
        /\ Len(response.body.header) = 5 + Len(FactorNames(model))
        /\ \A row \in response.body.rows : Len(row) = Len(response.body.header)

\* the label rule: the explicit label when configured and non-empty, else
\* the raw identifier; never empty
LabelOK(label, configured, explicit, raw) ==
    /\ label # << >>
    /\ label = IF configured /\ explicit # None /\ explicit # << >> THEN explicit ELSE raw

FactorDesc(f) ==
    LET fl == FactorsGetOrNone(model).items
    IN  fl[CHOOSE i \in 1..Len(fl) : fl[i].name = f]

\* C9: every label of a returned metadata entry and every measure label of
\* a returned CSV export follows the label rule.
C9_LabelFallback ==
    /\ (op = "measures" /\ pc = "done" /\ response.status = 200) =>
          LET meta == response.body
              descs == IF model \in DOMAIN MEASURE_DESCRIPTIONS
                       THEN MEASURE_DESCRIPTIONS[model] ELSE << >>
          IN  /\ LabelOK(meta.label, TRUE, ConfigLabel(model), simple_model_name(model))
              /\ \A x \in DOMAIN meta.measures :
                    LabelOK(meta.measures[x].label, x \in DOMAIN descs,
                            IF x \in DOMAIN descs THEN descs[x] ELSE None, x)
              /\ \A f \in DOMAIN meta.factors :
                    /\ LabelOK(meta.factors[f].label, TRUE, FactorDesc(f).label, f)
                    /\ \A x \in DOMAIN meta.factors[f].values :
                          LabelOK(meta.factors[f].values[x],
                                  x \in DOMAIN FactorDesc(f).values,
                                  IF x \in DOMAIN FactorDesc(f).values
                                  THEN FactorDesc(f).values[x] ELSE None, x)
    /\ (op = "csv" /\ pc = "done" /\ response.status = 200) =>
          LET descs == IF model \in DOMAIN MEASURE_DESCRIPTIONS
                       THEN MEASURE_DESCRIPTIONS[model] ELSE << >>
          IN  /\ \A x \in objects : \E row \in response.body.rows :
                    /\ row[1] = x["GEOID"]
                    /\ LabelOK(row[4], x["measure"] \in DOMAIN descs,
                               IF x["measure"] \in DOMAIN descs
                               THEN descs[x["measure"]] ELSE None, x["measure"])
              /\ \A row \in response.body.rows : row[4] # << >>

C9_Witness ==
    /\ op = "measures" /\ pc = "done" /\ response.status = 200
    /\ model = "cancerincidence"
    /\ <<"n">> \in DOMAIN response.body.measures
    /\ response.body.measures[<<"n">>].label = <<"n">>
    /\ response.body.factors[<<"RE">>].label = <<"RE">>

\* C10: the min/max and the rows of a fips-value request come from one
\* state of the table, so every returned value lies within the returned
\* range.
C10_ConsistentSnapshot ==
    (op = "fips" /\ pc = "respond") =>
        /\ \E T \in SUBSET Rows(model) :
              /\ stats = ExecuteMinMax(StatsQuery(model, measure), T)
              /\ objects = Execute(query, T)
        /\ \A x \in objects :
              /\ \E lo \in stats.min : lo <= x["value"]
              /\ \E hi \in stats.max : x["value"] <= hi

====
